---- MODULE Spec2Model ----
(***************************************************************************)
(* Model of the ngx command line dispatcher, cli/index.js (class NgxCli):  *)
(* argument parsing, command routing, add-on discovery, the preference     *)
(* store of disabled add-ons, package manager resolution and the upward    *)
(* walk that finds a module's package.json.                                *)
(*                                                                         *)
(* JavaScript values are strings; the three non-string values the code     *)
(* tells apart are the tagged strings JsTrue, JsFalse and Undefined.       *)
(* A path is a sequence of characters, a namespace a sequence of its       *)
(* ':'-separated segments.  path.sep is the POSIX separator.               *)
(***************************************************************************)
EXTENDS Integers, Sequences, FiniteSets, TLC

\* ------------------------------------------------------------------ bounds

\* Longest command line (number of arguments after the program name).
MaxArgs == 2

\* Longest path, in characters, handed to the manifest resolver on its own.
MaxPathLen == 6

\* ------------------------------------------------------------- JS values

JsTrue == "#true"
JsFalse == "#false"
Undefined == "#undefined"

\* JavaScript truthiness of the values the model uses.
Truthy(v) == v \notin {JsFalse, Undefined, ""}

\* Boolean(v)
ToBoolean(v) == IF Truthy(v) THEN JsTrue ELSE JsFalse

Range(s) == {s[i] : i \in DOMAIN s}

RECURSIVE Filter(_, _)
\* Array.prototype.filter with the predicate given as the set of kept values.
Filter(s, keep) ==
    IF s = <<>> THEN <<>>
    ELSE (IF Head(s) \in keep THEN <<Head(s)>> ELSE <<>>) \o Filter(Tail(s), keep)

RECURSIVE Join(_, _)
\* Array.prototype.join: the elements with the separator between them.
Join(s, sep) ==
    IF s = <<>> THEN <<>>
    ELSE IF Len(s) = 1 THEN <<s[1]>>
    ELSE <<s[1], sep>> \o Join(Tail(s), sep)

\* ------------------------------------------------------------- constants

addonKey == "ngx-rocket-addon"

blacklistedNpmAddons == {"generator-ngx-rocket", "generator-ngx-rocket-addon"}

sep == "/"

Null == <<"#null">>

\* ------------------------------------------------- manifest resolver

Separators == {"/", "\\"}

RECURSIVE Split(_)
\* basePath.split(/[/\\]/): the pieces between separators, empty ones kept.
Split(p) ==
    IF p = <<>> THEN << <<>> >>
    ELSE LET rest == Split(Tail(p)) IN
         IF Head(p) \in Separators THEN << <<>> >> \o rest
         ELSE << <<Head(p)>> \o rest[1] >> \o Tail(rest)

RECURSIVE PathJoin(_)
\* path.join(...components): empty components are skipped, the rest joined
\* by the separator and normalised (a root component yields one leading sep).
PathJoin(components) ==
    IF components = <<>> THEN <<>>
    ELSE LET c == Head(components)
             rest == PathJoin(Tail(components)) IN
         IF c = <<>> THEN rest
         ELSE IF rest = <<>> THEN c
         ELSE IF c = <<sep>> THEN c \o rest
         ELSE c \o <<sep>> \o rest

\* path.join(dir, 'package.json')
PackageFile(dir) == PathJoin(<<dir, <<"package.json">> >>)

RECURSIVE find(_, _)
\* The inner function find of _findPackageJson; files is the set of existing
\* files.  checks lists the existence checks made, in order.
find(components, files) ==
    IF Len(components) = 0 THEN [result |-> Null, checks |-> <<>>]
    ELSE LET dir == PathJoin(components)
             packageFile == PackageFile(dir) IN
         IF packageFile \in files
         THEN [result |-> packageFile, checks |-> <<packageFile>>]
         ELSE LET up == find(SubSeq(components, 1, Len(components) - 1), files) IN
              [result |-> up.result, checks |-> <<packageFile>> \o up.checks]

\* The root fix left out: a leading empty component stays empty.
RootedComponentsUnrooted(basePath) == Split(basePath)

\* The components find starts from: a leading empty component is the root.
RootedComponents(basePath) ==
    LET components == Split(basePath) IN
    IF Len(components) # 0 /\ Len(components[1]) = 0
    THEN [components EXCEPT ![1] = <<sep>>]
    ELSE components

_findPackageJson(basePath, files) == find(RootedComponents(basePath), files)

\* ------------------------------------------------------ argument parsing

\* Option tokens (they start with '-') and the option key each one sets,
\* aliases resolved (alias: {n: 'npm', a: 'addon'}).
OptionKey(tok) ==
    CASE tok = "--help" -> "help"
      [] tok \in {"--npm", "-n"} -> "npm"
      [] tok \in {"--addon", "-a"} -> "addon"
      [] tok = "--packageManager" -> "packageManager"
      [] OTHER -> ""

IsOption(tok) == OptionKey(tok) # ""

\* The keys the constructor declares boolean.
BooleanOptions == {"help", "npm", "addon", "packageManager"}

\* A boolean key starts false; any other key starts undefined.
DefaultOptions ==
    [k \in {"help", "npm", "addon", "packageManager"} |->
        IF k \in BooleanOptions THEN JsFalse ELSE Undefined]

RECURSIVE minimist(_, _, _)
\* minimist(args, {boolean, alias}) from argument i on.  A key that is not
\* boolean takes the next argument as its value unless that is an option; a
\* boolean key takes no value, except that a following true or false is read
\* as its value; otherwise the key is set to true.  Positional arguments are
\* skipped (the class reads them from this._args).
minimist(argv, i, opts) ==
    IF i > Len(argv) THEN opts
    ELSE IF ~IsOption(argv[i]) THEN minimist(argv, i + 1, opts)
    ELSE LET key == OptionKey(argv[i]) IN
         IF key \notin BooleanOptions /\ i < Len(argv) /\ ~IsOption(argv[i + 1])
         THEN minimist(argv, i + 2, [opts EXCEPT ![key] = argv[i + 1]])
         ELSE IF i < Len(argv) /\ argv[i + 1] \in {"true", "false"}
         THEN minimist(argv, i + 2,
                  [opts EXCEPT ![key] = IF argv[i + 1] = "true" THEN JsTrue ELSE JsFalse])
         ELSE minimist(argv, i + 1, [opts EXCEPT ![key] = JsTrue])

\* --------------------------------------------------------- project manifest

\* .yo-rc.json in the working directory: absent, present but not JSON, or
\* JSON whose generator-ngx-rocket.props carries isAddon and packageManager
\* (Undefined: the field, or the whole props object, is missing).
RcAbsent == [file |-> "absent", isAddon |-> Undefined, packageManager |-> Undefined]

RcMalformed == [file |-> "malformed", isAddon |-> Undefined, packageManager |-> Undefined]

RcStates ==
    {RcAbsent, RcMalformed}
    \cup [file : {"json"}, isAddon : {JsTrue, Undefined}, packageManager : {Undefined, "npm", "yarn"}]

EnvValues == {Undefined, "npm", "yarn"}

\* ------------------------------------------------------- package manager

\* The try block of _packageManager: any failure leaves pm null.
RcPackageManager(rcFile) ==
    IF rcFile.file = "json" THEN rcFile.packageManager ELSE Undefined

_packageManager(opts, rcFile, envValue) ==
    IF Truthy(opts.packageManager)
    THEN (IF opts.packageManager = "yarn" THEN "yarn" ELSE "npm")
    ELSE LET pm == RcPackageManager(rcFile) IN
         IF Truthy(pm) THEN pm
         ELSE IF Truthy(envValue) THEN envValue
         ELSE "npm"

\* ------------------------------------------------------- generator modules

\* The generator this package registers in its constructor; its manifest
\* carries no add-on keyword.
CoreModule == [namespace |-> <<"ngx-rocket", "app">>, resolved |-> <<"/", "n", "/", "g">>]

ModuleA == [namespace |-> <<"a", "app">>, resolved |-> <<"/", "a", "/", "g">>]

ModuleB == [namespace |-> <<"b", "sub">>, resolved |-> <<"/", "b">>]

\* A module with no package.json at or above its resolved path.
ModuleX == [namespace |-> <<"x", "app">>, resolved |-> <<"/", "x", "/", "g">>]

OptionalModules == {ModuleA, ModuleB, ModuleX}

\* Registration order of every module that can be installed.
ModuleOrder == <<CoreModule, ModuleA, ModuleX, ModuleB>>

\* The package.json files of the installation, each with its keywords.
InstalledManifests ==
    (<<"/", "n", "/", "package.json">> :> {"yeoman-generator", "ngx", "rocket"})
    @@ (<<"/", "a", "/", "package.json">> :> {"yeoman-generator", addonKey})
    @@ (<<"/", "b", "/", "package.json">> :> {addonKey})

\* env.getGeneratorsMeta(), in registration order.
GeneratorsMeta(inst) == Filter(ModuleOrder, inst \cup {CoreModule})

\* namespace.replace(/(.*?):app$/, '$1')
Normalize(namespace) ==
    IF Len(namespace) > 1 /\ namespace[Len(namespace)] = "app"
    THEN SubSeq(namespace, 1, Len(namespace) - 1)
    ELSE namespace

\* require(packagePath).keywords || [] includes the add-on keyword.
IsAddonModule(generator, fs) ==
    addonKey \in fs[_findPackageJson(generator.resolved, DOMAIN fs).result]

\* require(null) throws: the filter callback fails on a module without manifest.
DiscoveryThrows(generators, fs) ==
    \E i \in DOMAIN generators :
        _findPackageJson(generators[i].resolved, DOMAIN fs).result = Null

\* The add-on identifiers _findAddons resolves with.
DiscoverAddons(generators, fs) ==
    LET kept == Filter(generators, {g \in Range(generators) : IsAddonModule(g, fs)}) IN
    [i \in DOMAIN kept |-> Normalize(kept[i].namespace)]

\* ------------------------------------------------------------ inputs

Commands == {"new", "n", "update", "u", "config", "c", "list", "l"}

\* What the first argument is drawn from: a command, a script name or an option.
Tokens == Commands \cup {"build", "--help", "--addon", "--npm", "--packageManager"}

\* What the later arguments are drawn from.
ArgTokens == {"--help", "--addon", "-a", "-n", "--packageManager", "yarn", "false"}

RECURSIVE SeqsUpTo(_, _)
SeqsUpTo(S, n) ==
    IF n = 0 THEN {<<>>}
    ELSE LET shorter == SeqsUpTo(S, n - 1) IN
         shorter \cup {Append(s, x) : s \in shorter, x \in S}

CommandLines ==
    {<<>>} \cup {<<t>> \o rest : t \in Tokens, rest \in SeqsUpTo(ArgTokens, MaxArgs - 1)}

\* What `npm search ngx-rocket-addon --json` may list.
RegistryPackages == {"generator-ngx-rocket", "generator-ngx-rocket-addon", "generator-ngx-x"}

PathChars == {"/", "\\", "a", "b", "c"}

Paths == SeqsUpTo(PathChars, MaxPathLen)

\* File systems the manifest resolver is run against on its own.
FileSystems ==
    { {},
      {<<"/", "package.json">>},
      {<<"/", "a", "/", "package.json">>},
      {<<"/", "a", "/", "b", "/", "package.json">>, <<"/", "a", "/", "package.json">>},
      {<<"a", "/", "package.json">>},
      {<<"a", "/", "b", "/", "package.json">>, <<"/", "package.json">>} }

\* ------------------------------------------------------------- state

VARIABLES
    store,          \* the persisted disabledAddons map: identifier -> true
    installed,      \* the optional generator modules currently installed
    manifests,      \* the package.json files on disk: path -> keywords
    rc,             \* .yo-rc.json of the working directory
    envPM,          \* process.env.NGX_PACKAGE_MANAGER
    pc,             \* where the current process is
    args,           \* this._args
    options,        \* this._options
    update,         \* generate's parameter update
    cont,           \* the handler awaiting _findAddons
    disabled,       \* the handler's local copy of the disabled map
    addons,         \* what _findAddons resolved with
    exitCode,       \* "running", or the status the process ended with
    generatorRuns,  \* the env.run calls of this process
    scriptRuns,     \* the fuzzyRun calls of this process
    discoveries,    \* the _findAddons calls of this process
    storeReads,     \* the _config.get calls of this process
    storeWrites,    \* the _config.set calls of this process
    printed,        \* what list printed
    banner,         \* whether the ascii logo was printed
    lastConfig,     \* history: what the last completed configure saw and got
    resolution      \* the last stand-alone _findPackageJson call

environment == <<store, installed, manifests, rc, envPM>>

process == <<pc, args, options, update, cont, disabled, addons, exitCode,
             generatorRuns, scriptRuns, discoveries, storeReads, storeWrites,
             printed, banner>>

vars == <<environment, process, lastConfig, resolution>>

EmptyMap == [a \in {} |-> JsTrue]

NoResolution == [basePath |-> <<>>, called |-> FALSE, result |-> Null, checks |-> <<>>]

\* A process that has not started: nothing called, nothing printed.
NoProcess ==
    /\ update = FALSE
    /\ cont = "none"
    /\ disabled = EmptyMap
    /\ addons = <<>>
    /\ exitCode = "running"
    /\ generatorRuns = <<>>
    /\ scriptRuns = <<>>
    /\ discoveries = 0
    /\ storeReads = 0
    /\ storeWrites = 0
    /\ printed = <<>>
    /\ banner = FALSE

Init ==
    /\ store = EmptyMap
    /\ installed = {}
    /\ manifests = InstalledManifests
    /\ rc = RcAbsent
    /\ envPM = Undefined
    /\ pc = "idle"
    /\ args = <<>>
    /\ options = DefaultOptions
    /\ NoProcess
    /\ lastConfig = [ran |-> FALSE, discovered |-> {}, selected |-> {}]
    /\ resolution = NoResolution

Ended == pc \in {"exited", "failed"}

\* ------------------------------------------------------------ helpers

\* disabled[addon], for identifiers that name no property every object has.
Lookup(map, key) == IF key \in DOMAIN map THEN map[key] ELSE Undefined

\* The filter left out: every discovered add-on is passed on.
EnabledAddonsUnfiltered(found, map) == found

\* addons.filter(addon => !disabled[addon])
EnabledAddons(found, map) ==
    Filter(found, {a \in Range(found) : ~Truthy(Lookup(map, a))})

\* The filter inverted: the answered add-ons are the ones stored.
DisabledMapOfAnswers(found, answers) == [a \in answers |-> JsTrue]

\* A merge instead of a replacement: old entries of undiscovered add-ons stay.
DisabledMapMerged(found, answers) ==
    [a \in (DOMAIN store \cup Range(found)) \ answers |-> JsTrue]

\* The map configure stores: every add-on that was not answered, set to true.
DisabledMap(found, answers) == [a \in Range(found) \ answers |-> JsTrue]

\* args.filter(arg => arg !== '--addon' && arg !== '-a')
WithoutAddonFlag(argv) == Filter(argv, Range(argv) \ {"--addon", "-a"})

\* The existence test left out.
ProjectExistsAssumed(rcFile) == TRUE

\* fs.existsSync('.yo-rc.json')
ProjectExists(rcFile) == rcFile.file # "absent"

\* JSON.parse(fs.readFileSync('.yo-rc.json')) returns rather than throws.
ProjectParses(rcFile) == rcFile.file = "json"

\* The flag never consulted: the manifest decides for new as well.
GenerateAddonFromManifest(isUpdate, addonFlag, rcFile) == ToBoolean(rcFile.isAddon)

\* The value of addon that generate branches on: on update the manifest's
\* isAddon replaces the caller's flag.
GenerateAddon(isUpdate, addonFlag, rcFile) ==
    IF isUpdate THEN ToBoolean(rcFile.isAddon) ELSE addonFlag

\* The switch of run() on this._args[0], after the help test.
Route ==
    IF Truthy(options.help) THEN "help"
    ELSE IF args = <<>> THEN "script"
    ELSE CASE args[1] \in {"n", "new"} -> "new"
           [] args[1] \in {"u", "update"} -> "update"
           [] args[1] \in {"c", "config"} -> "config"
           [] args[1] \in {"l", "list"} -> "list"
           [] OTHER -> "script"

\* An error nothing catches ends the process; the status it ends with depends
\* on how the runtime treats an unhandled rejection.
FailureCodes == {"0", "1"}

\* What resumes after _findAddons, by awaiting handler.
AfterDiscovery(handler) ==
    CASE handler = "generate" -> "generateApp"
      [] handler = "configure" -> "prompt"
      [] OTHER -> "listLocal"

\* process.exit(code) in _exit
_exit(code) ==
    /\ pc' = "exited"
    /\ exitCode' = code

\* A process starts with nothing called and nothing printed.
FreshProcess ==
    /\ update' = FALSE
    /\ cont' = "none"
    /\ disabled' = EmptyMap
    /\ addons' = <<>>
    /\ exitCode' = "running"
    /\ generatorRuns' = <<>>
    /\ scriptRuns' = <<>>
    /\ discoveries' = 0
    /\ storeReads' = 0
    /\ storeWrites' = 0
    /\ printed' = <<>>
    /\ banner' = FALSE

\* -------------------------------------------------------------- actions

\* new NgxCli(args), in a new process.
Construct(argv) ==
    /\ pc = "idle"
    /\ pc' = "constructed"
    /\ args' = argv
    /\ options' = minimist(argv, 1, DefaultOptions)
    /\ FreshProcess
    /\ UNCHANGED <<environment, lastConfig, resolution>>

\* run() with --help: _help(true).
RunHelp ==
    /\ pc = "constructed"
    /\ Route = "help"
    /\ banner' = TRUE
    /\ _exit("1")
    /\ UNCHANGED <<environment, args, options, update, cont, disabled, addons,
                   generatorRuns, scriptRuns, discoveries, storeReads,
                   storeWrites, printed, lastConfig, resolution>>

\* run() routed to runScript(args).
RunScript ==
    /\ pc = "constructed"
    /\ Route = "script"
    /\ IF args = <<>>
       THEN /\ banner' = TRUE
            /\ _exit("1")
            /\ UNCHANGED scriptRuns
       ELSE /\ scriptRuns' = Append(scriptRuns,
                [args |-> args, packageManager |-> _packageManager(options, rc, envPM)])
            /\ _exit("0")
            /\ UNCHANGED banner
    /\ UNCHANGED <<environment, args, options, update, cont, disabled, addons,
                   generatorRuns, discoveries, storeReads, storeWrites, printed,
                   lastConfig, resolution>>

\* run() routed to generate(update, args.slice(1), addon), up to its first
\* suspension: the banner or the read of .yo-rc.json, then the branch on addon.
RunGenerate ==
    /\ pc = "constructed"
    /\ Route \in {"new", "update"}
    /\ update' = (Route = "update")
    /\ banner' = (Route = "new")
    /\ IF Route = "update" /\ ~ProjectExists(rc)
       THEN /\ _exit("1")
            /\ UNCHANGED <<cont, disabled, storeReads>>
       ELSE IF Route = "update" /\ ~ProjectParses(rc)
       THEN /\ pc' = "failed"
            /\ exitCode' \in FailureCodes
            /\ UNCHANGED <<cont, disabled, storeReads>>
       ELSE IF Truthy(GenerateAddon(Route = "update", options.addon, rc))
       THEN /\ pc' = "lookupAddon"
            /\ UNCHANGED <<cont, disabled, storeReads, exitCode>>
       ELSE /\ disabled' = store
            /\ storeReads' = storeReads + 1
            /\ cont' = "generate"
            /\ pc' = "findAddons"
            /\ UNCHANGED exitCode
    /\ UNCHANGED <<environment, args, options, addons, generatorRuns, scriptRuns,
                   discoveries, storeWrites, printed, lastConfig, resolution>>

\* The env.lookup callback of the add-on branch: env.run(['ngx-rocket:addon']...).
LookupAddon ==
    /\ pc = "lookupAddon"
    /\ generatorRuns' = Append(generatorRuns,
          [generator |-> "ngx-rocket:addon",
           args |-> WithoutAddonFlag(Tail(args)),
           update |-> update,
           packageManager |-> _packageManager(options, rc, envPM),
           hasAddons |-> FALSE,
           addons |-> <<>>,
           skipWelcome |-> TRUE])
    /\ pc' = "exited"
    /\ exitCode' = "0"
    /\ UNCHANGED <<environment, args, options, update, cont, disabled, addons,
                   scriptRuns, discoveries, storeReads, storeWrites, printed,
                   banner, lastConfig, resolution>>

\* _findAddons(): resolves with the identifiers, or throws on require(null).
FindAddons ==
    /\ pc = "findAddons"
    /\ discoveries' = discoveries + 1
    /\ LET generators == GeneratorsMeta(installed) IN
       IF DiscoveryThrows(generators, manifests)
       THEN /\ pc' = "failed"
            /\ exitCode' \in FailureCodes
            /\ UNCHANGED addons
       ELSE /\ addons' = DiscoverAddons(generators, manifests)
            /\ pc' = AfterDiscovery(cont)
            /\ UNCHANGED exitCode
    /\ UNCHANGED <<environment, args, options, update, cont, disabled,
                   generatorRuns, scriptRuns, storeReads, storeWrites, printed,
                   banner, lastConfig, resolution>>

\* generate after discovery: env.run(['ngx-rocket']...) with the enabled add-ons.
GenerateApp ==
    /\ pc = "generateApp"
    /\ generatorRuns' = Append(generatorRuns,
          [generator |-> "ngx-rocket",
           args |-> Tail(args),
           update |-> update,
           packageManager |-> _packageManager(options, rc, envPM),
           hasAddons |-> TRUE,
           addons |-> Join(EnabledAddons(addons, disabled), <<" ">>),
           skipWelcome |-> TRUE])
    /\ pc' = "exited"
    /\ exitCode' = "0"
    /\ UNCHANGED <<environment, args, options, update, cont, disabled, addons,
                   scriptRuns, discoveries, storeReads, storeWrites, printed,
                   banner, lastConfig, resolution>>

\* run() routed to configure(), up to await this._findAddons().
RunConfigure ==
    /\ pc = "constructed"
    /\ Route = "config"
    /\ cont' = "configure"
    /\ pc' = "findAddons"
    /\ UNCHANGED <<environment, args, options, update, disabled, addons, exitCode,
                   generatorRuns, scriptRuns, discoveries, storeReads,
                   storeWrites, printed, banner, lastConfig, resolution>>

\* configure after discovery: the store is read, the user answers the
\* checkbox prompt with some of the choices, the new map is stored.
ConfigurePrompt(answers) ==
    /\ pc = "prompt"
    /\ answers \subseteq Range(addons)
    /\ disabled' = store
    /\ storeReads' = storeReads + 1
    /\ store' = DisabledMap(addons, answers)
    /\ storeWrites' = storeWrites + 1
    /\ lastConfig' = [ran |-> TRUE, discovered |-> Range(addons), selected |-> answers]
    /\ pc' = "exited"
    /\ exitCode' = "0"
    /\ UNCHANGED <<installed, manifests, rc, envPM, args, options, update, cont,
                   addons, generatorRuns, scriptRuns, discoveries, printed,
                   banner, resolution>>

\* run() routed to list(npm), up to its first await.
RunList ==
    /\ pc = "constructed"
    /\ Route = "list"
    /\ IF Truthy(options.npm)
       THEN /\ pc' = "listNpm"
            /\ UNCHANGED cont
       ELSE /\ cont' = "list"
            /\ pc' = "findAddons"
    /\ UNCHANGED <<environment, args, options, update, disabled, addons, exitCode,
                   generatorRuns, scriptRuns, discoveries, storeReads,
                   storeWrites, printed, banner, lastConfig, resolution>>

\* list --npm: the registry answers with some packages; the blacklisted ones
\* are dropped and the rest printed.
ListNpm(found) ==
    /\ pc = "listNpm"
    /\ found \subseteq RegistryPackages
    /\ disabled' = store
    /\ storeReads' = storeReads + 1
    /\ printed' = <<[npm |-> TRUE, names |-> found \ blacklistedNpmAddons, enabled |-> {}]>>
    /\ pc' = "exited"
    /\ exitCode' = "0"
    /\ UNCHANGED <<environment, args, options, update, cont, addons,
                   generatorRuns, scriptRuns, discoveries, storeWrites, banner,
                   lastConfig, resolution>>

\* list after discovery: each identifier, ticked unless disabled.
ListLocal ==
    /\ pc = "listLocal"
    /\ disabled' = store
    /\ storeReads' = storeReads + 1
    /\ printed' = <<[npm |-> FALSE, names |-> Range(addons),
                     enabled |-> Range(EnabledAddons(addons, store))]>>
    /\ pc' = "exited"
    /\ exitCode' = "0"
    /\ UNCHANGED <<environment, args, options, update, cont, addons,
                   generatorRuns, scriptRuns, discoveries, storeWrites, banner,
                   lastConfig, resolution>>

\* The process has ended and is gone; the next one starts from nothing.
ProcessGone ==
    /\ Ended
    /\ pc' = "idle"
    /\ args' = <<>>
    /\ options' = DefaultOptions
    /\ FreshProcess
    /\ UNCHANGED <<environment, lastConfig, resolution>>

\* Between two processes: generator modules are installed or removed.
InstallModules(modules) ==
    /\ pc = "idle"
    /\ modules \subseteq OptionalModules
    /\ modules # installed
    /\ installed' = modules
    /\ UNCHANGED <<store, manifests, rc, envPM, process, lastConfig, resolution>>

\* Between two processes: .yo-rc.json is written, damaged or removed.
WriteProject(file) ==
    /\ pc = "idle"
    /\ file \in RcStates
    /\ file # rc
    /\ rc' = file
    /\ UNCHANGED <<store, installed, manifests, envPM, process, lastConfig, resolution>>

\* Between two processes: NGX_PACKAGE_MANAGER is set or unset.
SetEnvironment(value) ==
    /\ pc = "idle"
    /\ value \in EnvValues
    /\ value # envPM
    /\ envPM' = value
    /\ UNCHANGED <<store, installed, manifests, rc, process, lastConfig, resolution>>

Next ==
    \/ pc = "idle" /\ \E argv \in CommandLines : Construct(argv)
    \/ RunHelp
    \/ RunScript
    \/ RunGenerate
    \/ LookupAddon
    \/ FindAddons
    \/ GenerateApp
    \/ RunConfigure
    \/ \E answers \in SUBSET Range(addons) : ConfigurePrompt(answers)
    \/ RunList
    \/ \E found \in SUBSET RegistryPackages : ListNpm(found)
    \/ ListLocal
    \/ ProcessGone
    \/ \E modules \in SUBSET OptionalModules : InstallModules(modules)
    \/ \E file \in RcStates : WriteProject(file)
    \/ \E value \in EnvValues : SetEnvironment(value)

Spec == Init /\ [][Next]_vars

\* ------------------------------------------- the manifest resolver alone

\* _findPackageJson(basePath) against the files on disk.
ResolveManifest(basePath) ==
    /\ ~resolution.called
    /\ LET r == _findPackageJson(basePath, DOMAIN manifests) IN
       resolution' = [basePath |-> basePath, called |-> TRUE,
                      result |-> r.result, checks |-> r.checks]
    /\ UNCHANGED <<environment, process, lastConfig>>

InitResolver ==
    /\ store = EmptyMap
    /\ installed = {}
    /\ manifests \in {[f \in files |-> {}] : files \in FileSystems}
    /\ rc = RcAbsent
    /\ envPM = Undefined
    /\ pc = "idle"
    /\ args = <<>>
    /\ options = DefaultOptions
    /\ NoProcess
    /\ lastConfig = [ran |-> FALSE, discovered |-> {}, selected |-> {}]
    /\ resolution = NoResolution

NextResolver == ~resolution.called /\ \E basePath \in Paths : ResolveManifest(basePath)

SpecResolver == InitResolver /\ [][NextResolver]_vars

\* ------------------------------------------------------------- properties

IsNew == args # <<>> /\ args[1] \in {"new", "n"}

IsUpdate == args # <<>> /\ args[1] \in {"update", "u"}

\* The command line switches a flag on: its last occurrence is not negated
\* by a following false.
FlagOn(flags) ==
    /\ \E i \in DOMAIN args : args[i] \in flags
    /\ LET last == CHOOSE i \in DOMAIN args :
                       /\ args[i] \in flags
                       /\ \A j \in DOMAIN args : args[j] \in flags => j <= i IN
       ~(last < Len(args) /\ args[last + 1] = "false")

HelpAsked == FlagOn({"--help"})

AddonFlagGiven == FlagOn({"--addon", "-a"})

AppRuns == {r \in Range(generatorRuns) : r.generator = "ngx-rocket"}

AddonRuns == {r \in Range(generatorRuns) : r.generator = "ngx-rocket:addon"}

\* The identifiers in a joined add-on list.
PassedAddons(r) == Range(r.addons) \ {<<" ">>}

FlagValue ==
    IF \E i \in DOMAIN args : args[i] = "--packageManager"
    THEN LET i == CHOOSE j \in DOMAIN args :
                      /\ args[j] = "--packageManager"
                      /\ \A k \in DOMAIN args : args[k] = "--packageManager" => k <= j IN
         IF i < Len(args) THEN args[i + 1] ELSE JsTrue
    ELSE Undefined

PrecedencePM ==
    IF FlagValue # Undefined THEN (IF FlagValue = "yarn" THEN "yarn" ELSE "npm")
    ELSE IF rc.file = "json" /\ rc.packageManager # Undefined THEN rc.packageManager
    ELSE IF envPM # Undefined THEN envPM
    ELSE "npm"

ResolvedPMs ==
    {r.packageManager : r \in Range(generatorRuns)}
    \cup {r.packageManager : r \in Range(scriptRuns)}

\* C2: the package manager handed on follows flag > manifest > environment >
\* npm, the flag value being the one given on the command line.
C2_Precedence == \A pm \in ResolvedPMs : pm = PrecedencePM

\* C3: update without .yo-rc.json ends with status 1 and runs no generator,
\* no discovery and no store write.
C3_UpdateWithoutProject ==
    (IsUpdate /\ rc.file = "absent") =>
        /\ pc \in {"constructed", "exited"}
        /\ pc = "exited" => exitCode = "1"
        /\ generatorRuns = <<>>
        /\ discoveries = 0
        /\ storeWrites = 0

C3_Witness ==
    /\ IsUpdate
    /\ ~HelpAsked
    /\ rc.file = "absent"
    /\ pc = "exited"
    /\ exitCode = "1"

\* C4: after configure the store holds exactly the discovered add-ons that
\* were not selected, each mapped to true.
C4_ConfigureStores ==
    (pc = "exited" /\ storeWrites > 0) =>
        /\ DOMAIN store = Range(addons) \ lastConfig.selected
        /\ \A a \in DOMAIN store : store[a] = JsTrue
        /\ lastConfig.selected \subseteq Range(addons)

C4_Witness ==
    /\ pc = "exited"
    /\ storeWrites > 0
    /\ Cardinality(Range(addons)) = 2
    /\ Cardinality(lastConfig.selected) = 1
    /\ disabled # EmptyMap
    /\ DOMAIN disabled # DOMAIN store

\* The add-on identifiers of the installed modules whose manifest is found and
\* carries the keyword.
MarkedAddons ==
    {Normalize(m.namespace) :
        m \in {g \in installed \cup {CoreModule} :
                 /\ _findPackageJson(g.resolved, DOMAIN manifests).result # Null
                 /\ IsAddonModule(g, manifests)}}

\* C5: discovery skips a module without manifest and still delivers the
\* identifiers of the other marked modules.
C5_DiscoveryTolerant ==
    (discoveries > 0 /\ pc # "findAddons") =>
        /\ pc # "failed"
        /\ Range(addons) = MarkedAddons

\* The number of components of a path: one more than its separators.
NumComponents(p) == 1 + Cardinality({i \in DOMAIN p : p[i] \in Separators})

\* A path written with single '/' separators only and no trailing one.
CleanPath(p) ==
    /\ p # <<>>
    /\ \A i \in DOMAIN p : p[i] # "\\"
    /\ p[Len(p)] # "/"
    /\ \A i \in 1..(Len(p) - 1) : ~(p[i] = "/" /\ p[i + 1] = "/")

\* The position of the k-th separator of p counted from its end.
SeparatorFromEnd(p, k) ==
    CHOOSE i \in DOMAIN p :
        /\ p[i] = "/"
        /\ Cardinality({j \in (i + 1)..Len(p) : p[j] = "/"}) = k - 1

\* The directory a clean path's k-th check looks into, read off its characters.
CheckedDirectory(p, k) ==
    IF k = 1 THEN p
    ELSE LET cut == SeparatorFromEnd(p, k - 1) IN
         IF cut = 1 THEN <<"/">> ELSE SubSeq(p, 1, cut - 1)

ManifestIn(dir) ==
    IF dir = <<"/">> THEN <<"/", "package.json">> ELSE dir \o <<"/", "package.json">>

\* C6: resolving a path of N components makes at most N existence checks,
\* the given directory first and then each shorter prefix; it returns the
\* first manifest that exists and null when none does; an absolute path is
\* walked up to the root, whose separator is never dropped.
C6_ManifestResolution ==
    resolution.called =>
        LET p == resolution.basePath
            checks == resolution.checks
            files == DOMAIN manifests
            n == NumComponents(p) IN
        /\ Len(checks) >= 1
        /\ Len(checks) <= n
        /\ \A i \in 1..(Len(checks) - 1) : checks[i] \notin files
        /\ IF checks[Len(checks)] \in files
           THEN resolution.result = checks[Len(checks)]
           ELSE resolution.result = Null /\ Len(checks) = n
        /\ (p # <<>> /\ p[1] \in Separators) =>
              /\ \A i \in DOMAIN checks : checks[i][1] = "/"
              /\ resolution.result = Null =>
                    checks[Len(checks)] = <<"/", "package.json">>
        /\ CleanPath(p) =>
              \A k \in DOMAIN checks : checks[k] = ManifestIn(CheckedDirectory(p, k))
        /\ (p = <<"/", "a", "/", "b", "/", "c">> /\ resolution.result = Null) =>
              checks = << <<"/", "a", "/", "b", "/", "c", "/", "package.json">>,
                          <<"/", "a", "/", "b", "/", "package.json">>,
                          <<"/", "a", "/", "package.json">>,
                          <<"/", "package.json">> >>

C6_Witness ==
    /\ resolution.called
    /\ resolution.basePath = <<"/", "a", "/", "b", "/", "c">>
    /\ resolution.result = Null
    /\ Len(resolution.checks) = 4

\* C7 as stated: whenever --addon or -a is given to new or update and a
\* generator runs, it is the add-on generator, without discovery, store read
\* or add-on list.
C7_FlagAlwaysBypasses ==
    ((IsNew \/ IsUpdate) /\ AddonFlagGiven /\ generatorRuns # <<>>) =>
        /\ AppRuns = {}
        /\ \A r \in AddonRuns : ~r.hasAddons
        /\ discoveries = 0
        /\ storeReads = 0

\* C7: --addon or -a given to new always bypasses add-on composition; on
\* update the flag is ignored and the manifest's isAddon alone decides.
C7_FlagBypassesOnNew ==
    /\ (IsNew /\ AddonFlagGiven) =>
          /\ pc \notin {"findAddons", "generateApp", "failed"}
          /\ AppRuns = {}
          /\ \A r \in AddonRuns : ~r.hasAddons /\ r.addons = <<>>
          /\ discoveries = 0
          /\ storeReads = 0
          /\ pc = "exited" /\ ~HelpAsked => Cardinality(AddonRuns) = 1
    /\ (IsUpdate /\ generatorRuns # <<>>) =>
          IF rc.isAddon = JsTrue
          THEN AppRuns = {} /\ discoveries = 0 /\ storeReads = 0
          ELSE AddonRuns = {} /\ discoveries = 1

C7_Witness ==
    /\ IsNew
    /\ AddonFlagGiven
    /\ pc = "exited"
    /\ AddonRuns # {}

\* An invocation that is a usage error: no script name, or update with no
\* project.
UsageError == args = <<>> \/ (IsUpdate /\ ~HelpAsked /\ rc.file = "absent")

\* C8: the exit status is 1 exactly on usage errors and 0 otherwise; --help
\* does nothing but print usage and ends with status 0.
C8_ExitCodes ==
    pc = "exited" =>
        /\ exitCode = "1" <=> UsageError
        /\ HelpAsked =>
              /\ exitCode = "0"
              /\ generatorRuns = <<>> /\ scriptRuns = <<>>
              /\ discoveries = 0 /\ storeWrites = 0

\* C9: a missing or malformed manifest never fails the invocation: package
\* manager resolution falls through to the environment and npm, and update
\* treats a malformed .yo-rc.json as absent.
C9_ManifestFailuresSilent ==
    /\ (rc.file # "json" /\ FlagValue = Undefined) =>
          \A pm \in ResolvedPMs : pm = (IF envPM # Undefined THEN envPM ELSE "npm")
    /\ (IsUpdate /\ rc.file = "malformed") => pc # "failed"

====
